---- MODULE Spec2Model ----
(***************************************************************************)
(* Model of the mosdepth module of MultiQC                                 *)
(* (src/multiqc/modules/mosdepth/mosdepth.py): read_config,                *)
(* MultiqcModule.__init__, parse_cov_dist, genstats_cov_thresholds,        *)
(* genstats_mediancov and get_cov_thresholds.                              *)
(*                                                                         *)
(* Representation.                                                         *)
(*  - A Python str is a sequence of one-character strings.                 *)
(*  - A float read from a report is an integer number of hundredths, so    *)
(*    100.0 * float(bases_fraction) is that integer taken as a percentage  *)
(*    and the "-= 1" of the per-contig correction subtracts 100.           *)
(*  - perchrom_fraction_cutoff is an integer number of thousandths.        *)
(*  - A dict is a sequence of <<key, value>> pairs in insertion order      *)
(*    where the order is observable, a function otherwise.                 *)
(*  - A Python value of varying type is a record carrying its type name.   *)
(*  - An uncaught exception ends the run: pc = "raised", raised = its name.*)
(***************************************************************************)
EXTENDS Integers, Sequences, FiniteSets, Bags, TLC

\* ---------------------------------------------------------------- bounds
MaxLines == 3
MaxFiles == 2

\* ------------------------------------------------------- number scales
FracScale == 100
One == 100
CutoffScale == 1000
DefaultCutoff == 1

Samples == {"s1", "s2"}

\* ------------------------------------------------------------- strings
Str_total == <<"t", "o", "t", "a", "l">>
Str_1 == <<"1">>
Str_X == <<"X">>
Str_chrY == <<"c", "h", "r", "Y">>

Contigs == {Str_1, Str_X, Str_chrY}

lower_char(c) ==
  CASE c = "X" -> "x"
    [] c = "Y" -> "y"
    [] OTHER -> c

lower(s) == [i \in 1..Len(s) |-> lower_char(s[i])]

startswith(s, prefix) ==
  /\ Len(s) >= Len(prefix)
  /\ SubSeq(s, 1, Len(prefix)) = prefix

RECURSIVE fnmatch(_, _)
fnmatch(name, pat) ==
  IF pat = <<>> THEN name = <<>>
  ELSE IF Head(pat) = "*"
    THEN \/ fnmatch(name, Tail(pat))
         \/ (name # <<>> /\ fnmatch(Tail(name), pat))
  ELSE IF Head(pat) = "?"
    THEN name # <<>> /\ fnmatch(Tail(name), Tail(pat))
  ELSE /\ name # <<>>
       /\ Head(name) = Head(pat)
       /\ fnmatch(Tail(name), Tail(pat))

any_match(name, patterns) ==
  \E i \in 1..Len(patterns) : fnmatch(name, patterns[i])

\* ------------------------------------------------- insertion-ordered dict
dict_keys(d) == {d[i][1] : i \in 1..Len(d)}

dict_get(d, k, default) ==
  IF k \in dict_keys(d)
    THEN (CHOOSE p \in {d[i] : i \in 1..Len(d)} : p[1] = k)[2]
    ELSE default

dict_set(d, k, v) ==
  IF k \in dict_keys(d)
    THEN [i \in 1..Len(d) |-> IF d[i][1] = k THEN <<k, v>> ELSE d[i]]
    ELSE Append(d, <<k, v>>)

RECURSIVE SumSet(_, _)
SumSet(S, f) ==
  IF S = {} THEN 0
  ELSE LET e == CHOOSE e \in S : TRUE IN f[e] + SumSet(S \ {e}, f)

Max2(a, b) == IF a >= b THEN a ELSE b

\* --------------------------------------------------------- Python values
\* t is the value's type; s holds a str, l a list of str, n a number
\* (thousandths for a float, the integer itself for an int).
PyAbsent == [t |-> "absent", s |-> <<>>, l |-> <<>>, n |-> 0]
PyNone == [t |-> "NoneType", s |-> <<>>, l |-> <<>>, n |-> 0]
PyStr(chars) == [t |-> "str", s |-> chars, l |-> <<>>, n |-> 0]
PyList(items) == [t |-> "list", s |-> <<>>, l |-> items, n |-> 0]
PyFloat(milli) == [t |-> "float", s |-> <<>>, l |-> <<>>, n |-> milli]
PyInt(i) == [t |-> "int", s |-> <<>>, l |-> <<>>, n |-> i]

\* float(str): the strings the model's configurations use.
Str_0p5 == <<"0", ".", "5">>
Str_abc == <<"a", "b", "c">>

str_is_float(chars) == chars = Str_0p5

str_to_float(chars) == IF chars = Str_0p5 THEN 500 ELSE 0

\* config.mosdepth_config as found by the module.  attr is "absent" when the
\* attribute does not exist, "dict" for a mapping, "other" for anything else.
\* A list of general_stats_coverage holds its numbers in tenths.
MkRaw(attr, inc, exc, x, y, cut, gsc) ==
  [attr |-> attr, include_contigs |-> inc, exclude_contigs |-> exc,
   xchr |-> x, ychr |-> y, perchrom_fraction_cutoff |-> cut,
   general_stats_coverage |-> gsc]

RawAbsent ==
  MkRaw("absent", PyAbsent, PyAbsent, PyAbsent, PyAbsent, PyAbsent, <<>>)
RawNotDict ==
  MkRaw("other", PyAbsent, PyAbsent, PyAbsent, PyAbsent, PyAbsent, <<>>)
RawBadTypes ==
  MkRaw("dict", PyStr(<<"*">>), PyNone, PyInt(1), PyList(<<Str_X>>),
        PyStr(Str_abc), <<>>)
RawCutoffList ==
  MkRaw("dict", PyAbsent, PyAbsent, PyAbsent, PyAbsent, PyList(<<>>), <<>>)
RawGlobs ==
  MkRaw("dict", PyList(<<<<"?">>>>), PyList(<<Str_X>>), PyAbsent, PyAbsent,
        PyAbsent, <<15, 50>>)
RawHalf ==
  MkRaw("dict", PyList(<<>>), PyList(<<>>), PyStr(Str_X), PyStr(Str_chrY),
        PyStr(Str_0p5), <<0, 10>>)

RawConfigs ==
  {RawAbsent, RawNotDict, RawBadTypes, RawCutoffList, RawGlobs, RawHalf}

EmptyCfg == [k \in {} |-> 0]

OptNone == [none |-> TRUE, s |-> <<>>]
OptStr(chars) == [none |-> FALSE, s |-> chars]

truthy(opt) == ~opt.none /\ opt.s # <<>>

list_or_empty(v) == IF v.t = "list" THEN v.l ELSE <<>>

str_or_none(v) == IF v.t = "str" THEN OptStr(v.s) ELSE OptNone

\* float(cutoff) of read_config: "TypeError" is not caught there.
cutoff_raises(v) == v.t \notin {"absent", "float", "int", "str"}

cutoff_value(v) ==
  CASE v.t = "absent" -> DefaultCutoff
    [] v.t = "float" -> v.n
    [] v.t = "int" -> v.n * CutoffScale
    [] v.t = "str" -> IF str_is_float(v.s) THEN str_to_float(v.s)
                      ELSE DefaultCutoff
    [] OTHER -> DefaultCutoff

read_config(raw) ==
  IF raw.attr = "other" THEN EmptyCfg
  ELSE [include_contigs |-> list_or_empty(raw.include_contigs),
        exclude_contigs |-> list_or_empty(raw.exclude_contigs),
        xchr |-> str_or_none(raw.xchr),
        ychr |-> str_or_none(raw.ychr),
        perchrom_fraction_cutoff |-> cutoff_value(raw.perchrom_fraction_cutoff)]

read_config_raises(raw) ==
  raw.attr # "other" /\ cutoff_raises(raw.perchrom_fraction_cutoff)

\* get_cov_thresholds: the first element of the returned pair.
DefaultThreshs == <<1, 5, 10, 30, 50>>

int_of(tenths) == tenths \div 10

get_cov_thresholds(raw) ==
  IF raw.attr = "dict" /\ Len(raw.general_stats_coverage) > 0
    THEN [i \in 1..Len(raw.general_stats_coverage) |->
            int_of(raw.general_stats_coverage[i])]
    ELSE DefaultThreshs

\* ------------------------------------------------------------- the input
\* A numeric field of a report line: ok says whether float()/int() accepts it.
Num(v) == [ok |-> TRUE, v |-> v]
NaN == [ok |-> FALSE, v |-> 0]

\* A line of a *.mosdepth.{region,global}.dist.txt file: nf is the number of
\* fields line.split("\t") returns (1 when the line holds no tab).
DistLine(nf, contig, reads, frac) ==
  [nf |-> nf, contig |-> contig, cutoff_reads |-> reads,
   bases_fraction |-> frac]

\* rows of the genome-wide series: <<depth, hundredths>>
TotalRows == {<<0, 100>>, <<1, 50>>, <<1, 40>>, <<5, 40>>, <<1, 0>>}

\* rows of the contigs: <<contig, hundredths>>
ContigRows == {<<Str_1, 40>>, <<Str_X, 100>>, <<Str_chrY, 100>>}

MalformedLines ==
  {DistLine(1, <<>>, NaN, NaN),
   DistLine(2, Str_total, Num(1), NaN),
   DistLine(3, Str_1, Num(1), NaN),
   DistLine(3, Str_total, NaN, Num(100))}

DistLines ==
  {DistLine(3, Str_total, Num(r[1]), Num(r[2])) : r \in TotalRows}
    \cup {DistLine(3, r[1], Num(0), Num(r[2])) : r \in ContigRows}
    \cup MalformedLines

\* A line of a *.mosdepth.summary.txt file.
SummaryLine(nf, contig, mean) == [nf |-> nf, contig |-> contig, mean |-> mean]

SummaryLines ==
  {SummaryLine(6, Str_total, "30.5"),
   SummaryLine(6, Str_1, "28.1"),
   SummaryLine(5, Str_total, "30.5")}

\* ------------------------------------------------------------- the state
VARIABLES
  pc,                 \* position of __init__ / parse_cov_dist
  raised,             \* exception that left __init__, "none" while running
  rawcfg,             \* config.mosdepth_config
  cfg,                \* self.cfg
  genstats,           \* sample -> [mean_coverage, thresholds, median_coverage]
  cumcov_dist_data,   \* sample -> ordered dict depth -> percent
  cov_dist_data,      \* sample -> dict depth -> percent
  xmax,
  perchrom_avg_data,  \* sample -> ordered dict contig -> coverage
  xy_cov,             \* sample -> [x, y]
  scope,              \* "region" or "global": the outer loop of line 293
  cur,                \* s_name of the file whose lines are being read, or NoFile
  nfiles,             \* files returned by find_log_files so far
  nlines,             \* lines read so far
  regionSeen,         \* history: samples a region report was found for
  rowsRead            \* history: bag of the per-contig rows read

vars ==
  <<pc, raised, rawcfg, cfg, genstats, cumcov_dist_data, cov_dist_data, xmax,
    perchrom_avg_data, xy_cov, scope, cur, nfiles, nlines, regionSeen,
    rowsRead>>

NoFile == "-"

EmptyMap == [s \in {} |-> <<>>]

\* d[k] of a defaultdict: the default when the key is missing.
map_get(m, k, default) == IF k \in DOMAIN m THEN m[k] ELSE default

map_set(m, k, v) == [x \in DOMAIN m \cup {k} |-> IF x = k THEN v ELSE m[x]]

NoStats == [mean_coverage |-> <<>>, thresholds |-> <<>>, median_coverage |-> <<>>]

Init ==
  /\ pc = "read_config"
  /\ raised = "none"
  /\ rawcfg \in RawConfigs
  /\ cfg = EmptyCfg
  /\ genstats = EmptyMap
  /\ cumcov_dist_data = EmptyMap
  /\ cov_dist_data = EmptyMap
  /\ xmax = 0
  /\ perchrom_avg_data = EmptyMap
  /\ xy_cov = EmptyMap
  /\ scope = "region"
  /\ cur = NoFile
  /\ nfiles = 0
  /\ nlines = 0
  /\ regionSeen = {}
  /\ rowsRead = EmptyBag

Raise(exc) ==
  /\ pc' = "raised"
  /\ raised' = exc

\* self.cfg = read_config()
ReadConfig ==
  /\ pc = "read_config"
  /\ IF read_config_raises(rawcfg)
       THEN Raise("TypeError") /\ UNCHANGED cfg
       ELSE /\ cfg' = read_config(rawcfg)
            /\ pc' = "summary"
            /\ UNCHANGED raised
  /\ UNCHANGED <<rawcfg, genstats, cumcov_dist_data, cov_dist_data, xmax,
                 perchrom_avg_data, xy_cov, scope, cur, nfiles, nlines,
                 regionSeen, rowsRead>>

\* ----------------------------------------------- summary files (283-290)
SummaryFile(s) ==
  /\ pc = "summary"
  /\ nfiles < MaxFiles
  /\ nfiles' = nfiles + 1
  /\ cur' = s
  /\ UNCHANGED <<pc, raised, rawcfg, cfg, genstats, cumcov_dist_data,
                 cov_dist_data, xmax, perchrom_avg_data, xy_cov, scope, nlines,
                 regionSeen, rowsRead>>

summary_line_raises(line) == line.nf # 6

summary_line(gs, s, line) ==
  IF startswith(line.contig, Str_total)
    THEN map_set(gs, s, [map_get(gs, s, NoStats) EXCEPT
                           !.mean_coverage = <<line.mean>>])
    ELSE gs

ParseSummaryLine(line) ==
  /\ pc = "summary"
  /\ cur # NoFile
  /\ nlines < MaxLines
  /\ nlines' = nlines + 1
  /\ IF summary_line_raises(line)
       THEN Raise("ValueError") /\ UNCHANGED genstats
       ELSE /\ genstats' = summary_line(genstats, cur, line)
            /\ UNCHANGED <<pc, raised>>
  /\ UNCHANGED <<rawcfg, cfg, cumcov_dist_data, cov_dist_data, xmax,
                 perchrom_avg_data, xy_cov, scope, cur, nfiles, regionSeen,
                 rowsRead>>

EndSummary ==
  /\ pc = "summary"
  /\ pc' = "dist"
  /\ cur' = NoFile
  /\ UNCHANGED <<raised, rawcfg, cfg, genstats, cumcov_dist_data,
                 cov_dist_data, xmax, perchrom_avg_data, xy_cov, scope, nfiles,
                 nlines, regionSeen, rowsRead>>

\* --------------------------------------- distribution files (293-338)
\* find_log_files yields a file of sample s; line 296 skips it when the
\* sample already has a cumulative series.
DistFile(s) ==
  /\ pc = "dist"
  /\ nfiles < MaxFiles
  /\ nfiles' = nfiles + 1
  /\ cur' = IF s \in DOMAIN cumcov_dist_data THEN NoFile ELSE s
  /\ regionSeen' = IF scope = "region" THEN regionSeen \cup {s} ELSE regionSeen
  /\ UNCHANGED <<pc, raised, rawcfg, cfg, genstats, cumcov_dist_data,
                 cov_dist_data, xmax, perchrom_avg_data, xy_cov, scope, nlines,
                 rowsRead>>

glob_filtered_include_first(contig, c) ==
  IF Len(c.include_contigs) > 0
    THEN ~any_match(contig, c.include_contigs)
    ELSE any_match(contig, c.exclude_contigs)

\* lines 318 and 327: the contig is dropped by the glob patterns of c.
glob_filtered(contig, c) ==
  \/ any_match(contig, c.exclude_contigs)
  \/ /\ Len(c.include_contigs) > 0
     /\ ~any_match(contig, c.include_contigs)

\* What the body of the loop of line 299 does with a line:
\* "skip" (continue), an exception name, "total" or "contig".
line_kind(line, c) ==
  IF line.nf = 1 THEN "skip"
  ELSE IF line.nf # 3 THEN "ValueError"
  ELSE IF ~line.bases_fraction.ok THEN "ValueError"
  ELSE IF line.bases_fraction.v = 0 THEN "skip"
  ELSE IF line.contig = Str_total
    THEN IF line.cutoff_reads.ok THEN "total" ELSE "ValueError"
  ELSE IF "exclude_contigs" \notin DOMAIN c THEN "KeyError"
  ELSE IF glob_filtered(line.contig, c) THEN "skip"
  ELSE "contig"

\* lines 308-310
add_cumcov(cum, s, line) ==
  map_set(cum, s, dict_set(map_get(cum, s, <<>>), line.cutoff_reads.v,
                           (FracScale * line.bases_fraction.v) \div 100))

\* lines 312-313
new_xmax(xm, line) ==
  IF (FracScale * line.bases_fraction.v) \div 100 > 1
    THEN Max2(xm, line.cutoff_reads.v)
    ELSE xm

\* lines 334-335
add_perchrom(pd, s, line) ==
  LET d == map_get(pd, s, <<>>)
  IN map_set(pd, s, dict_set(d, line.contig,
                             dict_get(d, line.contig, 0) + line.bases_fraction.v))

\* history: a well-formed, non-zero row of a contig
is_contig_row(line) ==
  /\ line.nf = 3
  /\ line.bases_fraction.ok
  /\ line.bases_fraction.v # 0
  /\ line.contig # Str_total

ParseDistLine(line) ==
  /\ pc = "dist"
  /\ cur # NoFile
  /\ nlines < MaxLines
  /\ nlines' = nlines + 1
  /\ LET kind == line_kind(line, cfg)
     IN /\ IF kind \in {"ValueError", "KeyError"}
             THEN Raise(kind)
             ELSE UNCHANGED <<pc, raised>>
        /\ cumcov_dist_data' =
             IF kind = "total" THEN add_cumcov(cumcov_dist_data, cur, line)
             ELSE cumcov_dist_data
        /\ xmax' = IF kind = "total" THEN new_xmax(xmax, line) ELSE xmax
        /\ perchrom_avg_data' =
             IF kind = "contig" THEN add_perchrom(perchrom_avg_data, cur, line)
             ELSE perchrom_avg_data
  /\ rowsRead' =
       IF is_contig_row(line)
         THEN rowsRead (+) SetToBag({<<cur, line.contig, line.bases_fraction.v>>})
         ELSE rowsRead
  /\ UNCHANGED <<rawcfg, cfg, genstats, cov_dist_data, xy_cov, scope, cur,
                 nfiles, regionSeen>>

\* the loop of line 293 moves from "region" to "global", then ends
NextScope ==
  /\ pc = "dist"
  /\ cur' = NoFile
  /\ IF scope = "region"
       THEN scope' = "global" /\ UNCHANGED pc
       ELSE pc' = "cutoff" /\ UNCHANGED scope
  /\ UNCHANGED <<raised, rawcfg, cfg, genstats, cumcov_dist_data,
                 cov_dist_data, xmax, perchrom_avg_data, xy_cov, nfiles, nlines,
                 regionSeen, rowsRead>>

\* ------------------------------------------- contig cutoff (340-366)
all_contigs(pd) == UNION {dict_keys(pd[s]) : s \in DOMAIN pd}

\* lines 342-347
total_cov_per_contig(pd) ==
  [c \in all_contigs(pd) |->
     SumSet(DOMAIN pd, [s \in DOMAIN pd |-> dict_get(pd[s], c, 0)])]

total_cov(pd) == SumSet(all_contigs(pd), total_cov_per_contig(pd))

passing_contigs_ge(pd, cutoff) ==
  {c \in all_contigs(pd) :
     total_cov_per_contig(pd)[c] * CutoffScale >= total_cov(pd) * cutoff}

\* lines 350-356: float(total_cov_per_contig[contig]) > req_cov, with
\* req_cov = total_cov * cutoff and the cutoff in thousandths
passing_contigs(pd, cutoff) ==
  {c \in all_contigs(pd) :
     total_cov_per_contig(pd)[c] * CutoffScale > total_cov(pd) * cutoff}

filter_perchrom_all(pd, passing) == pd

\* lines 358-366
filter_perchrom(pd, passing) ==
  LET keep(d) == SelectSeq(d, LAMBDA p : p[1] \in passing)
      kept == {s \in DOMAIN pd : keep(pd[s]) # <<>>}
  IN [s \in kept |-> keep(pd[s])]

rejected_contigs(pd, passing) == all_contigs(pd) \ passing

\* ------------------------------------------- X and Y counts (377-397)
Str_x == <<"x">>
Str_chrx == <<"c", "h", "r", "x">>
Str_y == <<"y">>
Str_chry == <<"c", "h", "r", "y">>

is_x(contig, c) ==
  IF truthy(c.xchr) THEN c.xchr.s = contig
  ELSE lower(contig) = Str_x \/ lower(contig) = Str_chrx

is_y(contig, c) ==
  IF truthy(c.ychr) THEN c.ychr.s = contig
  ELSE lower(contig) = Str_y \/ lower(contig) = Str_chry

\* x_cov / y_cov after the loop of line 382: the coverage of the last
\* matching contig, 0 (False) when none matches
RECURSIVE last_cov(_, _, _, _)
last_cov(d, c, chrom, found) ==
  IF d = <<>> THEN found
  ELSE LET matches == IF chrom = "x" THEN is_x(Head(d)[1], c)
                      ELSE is_y(Head(d)[1], c)
       IN last_cov(Tail(d), c, chrom,
                   IF matches THEN Head(d)[2] ELSE found)

xy_of_either(pd, c) ==
  LET x_cov(s) == last_cov(pd[s], c, "x", 0)
      y_cov(s) == last_cov(pd[s], c, "y", 0)
      either == {s \in DOMAIN pd : x_cov(s) # 0 \/ y_cov(s) # 0}
  IN [s \in either |-> [x |-> x_cov(s), y |-> y_cov(s)]]

xy_of(pd, c) ==
  LET x_cov(s) == last_cov(pd[s], c, "x", 0)
      y_cov(s) == last_cov(pd[s], c, "y", 0)
      both == {s \in DOMAIN pd : x_cov(s) # 0 /\ y_cov(s) # 0}
  IN [s \in both |-> [x |-> x_cov(s), y |-> y_cov(s)]]

\* ---------------------------------- per-contig correction (399-404)
correct_perchrom_none(pd) == pd

correct_perchrom(pd) ==
  [s \in DOMAIN pd |-> [i \in 1..Len(pd[s]) |-> <<pd[s][i][1], pd[s][i][2] - One>>]]

\* ------------------------- absolute coverage distribution (406-423)
sorted_items_unsorted(d) == d

\* sorted(s_cumcov_dist.items())
RECURSIVE sorted_items(_)
sorted_items(d) ==
  IF d = <<>> THEN <<>>
  ELSE LET lo == CHOOSE i \in 1..Len(d) : \A j \in 1..Len(d) : d[i][1] <= d[j][1]
       IN <<d[lo]>> \o sorted_items([i \in 1..(Len(d) - 1) |->
                                       IF i < lo THEN d[i] ELSE d[i + 1]])

RECURSIVE abs_walk_keep_prev(_, _, _)
abs_walk_keep_prev(items, prev_cumcov, acc) ==
  IF items = <<>> THEN acc
  ELSE LET last == items[Len(items)]
       IN abs_walk_keep_prev(SubSeq(items, 1, Len(items) - 1), prev_cumcov,
                             map_set(acc, last[1], last[2] - prev_cumcov))

\* the while loop of line 420: items is what is left of cumcov_dist
RECURSIVE abs_walk(_, _, _)
abs_walk(items, prev_cumcov, acc) ==
  IF items = <<>> THEN acc
  ELSE LET last == items[Len(items)]
       IN abs_walk(SubSeq(items, 1, Len(items) - 1), last[2],
                   map_set(acc, last[1], last[2] - prev_cumcov))

EmptyDist == [x \in {} |-> 0]

abs_dist(d) ==
  LET items == sorted_items(d)
  IN abs_walk(SubSeq(items, 1, Len(items) - 1), items[Len(items)][2], EmptyDist)

cov_dist_of(cum) ==
  LET with == {s \in DOMAIN cum : Len(cum[s]) > 1}
  IN [s \in with |-> abs_dist(cum[s])]

\* ------------------------- the rest of parse_cov_dist (340-425)
\* No input is read any more: the cutoff, the X/Y counts, the correction and
\* the absolute distribution follow each other in one step.
ParseTail ==
  /\ pc = "cutoff"
  /\ IF "perchrom_fraction_cutoff" \notin DOMAIN cfg
       THEN /\ Raise("KeyError")
            /\ UNCHANGED <<perchrom_avg_data, xy_cov, cov_dist_data>>
       ELSE LET filtered ==
                  filter_perchrom(perchrom_avg_data,
                     passing_contigs(perchrom_avg_data,
                                     cfg.perchrom_fraction_cutoff))
            IN /\ xy_cov' = xy_of(filtered, cfg)
               /\ perchrom_avg_data' = correct_perchrom(filtered)
               /\ cov_dist_data' = cov_dist_of(cumcov_dist_data)
               /\ pc' = "returned"
               /\ UNCHANGED raised
  /\ UNCHANGED <<rawcfg, cfg, genstats, cumcov_dist_data, xmax, scope, cur,
                 nfiles, nlines, regionSeen, rowsRead>>

\* ------------------------- __init__ after parse_cov_dist (128-140)
\* BaseMultiqcModule.ignore_samples: drops the samples named by --ignore-samples
ignore_samples(data, ignored) == [s \in DOMAIN data \ ignored |-> data[s]]

num_samples(gs, cum, cov, pd, xy) ==
  Max2(Cardinality(DOMAIN gs),
       Max2(Cardinality(DOMAIN cum),
            Max2(Cardinality(DOMAIN cov),
                 Max2(Cardinality(DOMAIN pd), Cardinality(DOMAIN xy)))))

\* ------------------------------- general statistics (260-263, 427-451)
seq_range(q) == {q[i] : i \in 1..Len(q)}

cov_thresholds_present(d, threshs) ==
  LET dist_subset == SelectSeq(d, LAMBDA p : p[1] \in seq_range(threshs))
  IN [t \in dict_keys(dist_subset) |-> dict_get(dist_subset, t, 0)]

\* lines 428-431: the f"{t}_x_pc" entries of one sample
cov_thresholds(d, threshs) ==
  LET dist_subset == SelectSeq(d, LAMBDA p : p[1] \in seq_range(threshs))
  IN [t \in seq_range(threshs) |-> dict_get(dist_subset, t, 0)]

genstats_cov_thresholds(gs, cum, threshs) ==
  [s \in DOMAIN gs \cup DOMAIN cum |->
     IF s \in DOMAIN cum
       THEN [map_get(gs, s, NoStats) EXCEPT
               !.thresholds = <<cov_thresholds(cum[s], threshs)>>]
       ELSE gs[s]]

PyNoneInt == [none |-> TRUE, v |-> 0]
PyIntVal(v) == [none |-> FALSE, v |-> v]

RECURSIVE median_cov_strict(_)
median_cov_strict(d) ==
  IF d = <<>> THEN PyNoneInt
  ELSE IF Head(d)[2] > 50 THEN PyIntVal(Head(d)[1])
  ELSE median_cov_strict(Tail(d))

\* lines 446-450
RECURSIVE median_cov(_)
median_cov(d) ==
  IF d = <<>> THEN PyNoneInt
  ELSE IF Head(d)[2] >= 50 THEN PyIntVal(Head(d)[1])
  ELSE median_cov(Tail(d))

genstats_mediancov(gs, cum) ==
  [s \in DOMAIN gs \cup DOMAIN cum |->
     IF s \in DOMAIN cum
       THEN [map_get(gs, s, NoStats) EXCEPT
               !.median_coverage = <<median_cov(cum[s])>>]
       ELSE gs[s]]

\* lines 260-263
general_stats(gs, cum, raw) ==
  IF DOMAIN cum # {}
    THEN genstats_mediancov(
           genstats_cov_thresholds(gs, cum, get_cov_thresholds(raw)), cum)
    ELSE gs

\* __init__ from line 128 on, with the samples --ignore-samples names
IgnoreSets == {{}, {"s1"}}

InitTail(ignored) ==
  /\ pc = "returned"
  /\ cumcov_dist_data' = ignore_samples(cumcov_dist_data, ignored)
  /\ cov_dist_data' = ignore_samples(cov_dist_data, ignored)
  /\ perchrom_avg_data' = ignore_samples(perchrom_avg_data, ignored)
  /\ xy_cov' = ignore_samples(xy_cov, ignored)
  /\ IF num_samples(ignore_samples(genstats, ignored), cumcov_dist_data',
                    cov_dist_data', perchrom_avg_data', xy_cov') = 0
       THEN /\ Raise("UserWarning")
            /\ genstats' = ignore_samples(genstats, ignored)
       ELSE /\ genstats' = general_stats(ignore_samples(genstats, ignored),
                                         cumcov_dist_data', rawcfg)
            /\ pc' = "done"
            /\ UNCHANGED raised
  /\ UNCHANGED <<rawcfg, cfg, xmax, scope, cur, nfiles, nlines, regionSeen,
                 rowsRead>>

Next ==
  \/ ReadConfig
  \/ \E s \in Samples : SummaryFile(s)
  \/ \E line \in SummaryLines : ParseSummaryLine(line)
  \/ EndSummary
  \/ \E s \in Samples : DistFile(s)
  \/ \E line \in DistLines : ParseDistLine(line)
  \/ NextScope
  \/ ParseTail
  \/ \E ignored \in IgnoreSets : InitTail(ignored)

Spec == Init /\ [][Next]_vars

TypeOK ==
  /\ pc \in {"read_config", "summary", "dist", "cutoff", "returned", "done",
             "raised"}
  /\ raised \in {"none", "TypeError", "ValueError", "KeyError", "UserWarning"}
  /\ (pc = "raised") <=> (raised # "none")
  /\ nfiles \in 0..MaxFiles
  /\ nlines \in 0..MaxLines
  /\ DOMAIN genstats \subseteq Samples
  /\ DOMAIN cumcov_dist_data \subseteq Samples
  /\ \A s \in DOMAIN cumcov_dist_data : cumcov_dist_data[s] # <<>>

\* =================================================================
\* Properties
\* =================================================================

\* d.get(k) of a sample's dict in a defaultdict, empty when the sample is new
series_of(m, s) == map_get(m, s, <<>>)

NoSamples ==
  /\ DOMAIN genstats = {}
  /\ DOMAIN cumcov_dist_data = {}
  /\ DOMAIN cov_dist_data = {}
  /\ DOMAIN perchrom_avg_data = {}
  /\ DOMAIN xy_cov = {}

\* C1: while the global reports are read, a sample that has a region report
\* keeps its cumulative series and its per-contig sums, whatever the two
\* reports hold.
C1_GlobalIgnoredAfterRegion ==
  [][\A s \in regionSeen :
       (pc = "dist" /\ scope = "global")
         => /\ series_of(cumcov_dist_data', s) = series_of(cumcov_dist_data, s)
            /\ series_of(perchrom_avg_data', s) = series_of(perchrom_avg_data, s)]_vars

\* C2: a line with the wrong number of fields or with a field that is not a
\* number is skipped; it never ends the run with the ValueError of the
\* unpacking or of float()/int().
C2_MalformedLineSkipped == raised # "ValueError"

\* C3: once read_config has returned, every option whose configured value is
\* invalid holds its documented default, and the run does not end with the
\* KeyError or TypeError of a missing or mistyped option.
C3_cfg_keys ==
  {"include_contigs", "exclude_contigs", "xchr", "ychr",
   "perchrom_fraction_cutoff"}

C3_InvalidConfigDefaulted ==
  /\ raised \notin {"KeyError", "TypeError"}
  /\ pc \notin {"read_config", "raised"}
       => /\ DOMAIN cfg = C3_cfg_keys
          /\ rawcfg.include_contigs.t # "list" => cfg.include_contigs = <<>>
          /\ rawcfg.exclude_contigs.t # "list" => cfg.exclude_contigs = <<>>
          /\ rawcfg.xchr.t # "str" => cfg.xchr = OptNone
          /\ rawcfg.ychr.t # "str" => cfg.ychr = OptNone
          /\ rawcfg.perchrom_fraction_cutoff.t \notin {"float", "int"}
               /\ ~str_is_float(rawcfg.perchrom_fraction_cutoff.s)
               => cfg.perchrom_fraction_cutoff = DefaultCutoff

\* C4: the run ends with an exception exactly when no derived structure holds
\* a sample: a run that was aborted holds no sample, a run that completed
\* holds one.
C4_AbortIffNoSamples ==
  /\ pc = "raised" => NoSamples
  /\ pc = "done" => ~NoSamples

\* ----------------------------------------------------------------
\* What the reports held, from the history of the rows read
RowsOf(s, c) == {r \in DOMAIN rowsRead : r[1] = s /\ r[2] = c}

\* sum of the non-zero fractions of contig c read for sample s
RowSum(s, c) ==
  SumSet(RowsOf(s, c), [r \in DOMAIN rowsRead |-> r[3] * rowsRead[r]])

GlobExcluded(c) == \E i \in 1..Len(cfg.exclude_contigs) :
                      fnmatch(c, cfg.exclude_contigs[i])

GlobIncluded(c) == \E i \in 1..Len(cfg.include_contigs) :
                      fnmatch(c, cfg.include_contigs[i])

\* the uncorrected per-contig sum of the contigs the patterns let through
UncorrectedSum(s, c) ==
  IF GlobExcluded(c) \/ (Len(cfg.include_contigs) > 0 /\ ~GlobIncluded(c))
    THEN 0
    ELSE RowSum(s, c)

TotalCovPerContig(c) ==
  SumSet(Samples, [s \in Samples |-> UncorrectedSum(s, c)])

GrandTotal == SumSet(Contigs, [c \in Contigs |-> TotalCovPerContig(c)])

BelowCutoff(c) ==
  TotalCovPerContig(c) * CutoffScale <= GrandTotal * cfg.perchrom_fraction_cutoff

Reported(s, c) == c \in dict_keys(series_of(perchrom_avg_data, s))

\* C5: when parse_cov_dist returns, a contig with rows in a sample is missing
\* from that sample's per-contig output exactly when its total over all
\* samples is at most grandTotal * fractionCutoff; the decision is the same
\* for every sample.
C5_CutoffIsGlobal ==
  pc = "returned" =>
    \A c \in Contigs : \A s \in Samples :
      /\ Reported(s, c) => UncorrectedSum(s, c) # 0
      /\ UncorrectedSum(s, c) # 0 => (Reported(s, c) <=> ~BelowCutoff(c))

C5_Witness ==
  /\ pc = "returned"
  /\ \E c \in Contigs : \E s1 \in Samples : \E s2 \in Samples \ {s1} :
       /\ UncorrectedSum(s1, c) # 0 /\ UncorrectedSum(s2, c) # 0
       /\ BelowCutoff(c)
       /\ ~Reported(s1, c) /\ ~Reported(s2, c)
  /\ \E c \in Contigs : \E s \in Samples : Reported(s, c)

\* C6: no sample's per-contig averages ever hold a contig that matches an
\* exclude pattern, nor, when include patterns are configured, a contig that
\* matches none of them.
C6_GlobPrecedence ==
  \A s \in DOMAIN perchrom_avg_data : \A c \in dict_keys(perchrom_avg_data[s]) :
    /\ ~GlobExcluded(c)
    /\ Len(cfg.include_contigs) > 0 => GlobIncluded(c)

C6_Witness ==
  /\ pc = "done"
  /\ DOMAIN perchrom_avg_data # {}
  /\ \E r \in DOMAIN rowsRead : GlobExcluded(r[2]) /\ GlobIncluded(r[2])
  /\ \E r \in DOMAIN rowsRead : ~GlobExcluded(r[2]) /\ ~GlobIncluded(r[2])

\* C7: when parse_cov_dist returns, every reported (sample, contig) value is
\* the sum of the contig's non-zero fractions minus 1.0, and the contig passed
\* the cutoff on the sums before the subtraction.
C7_AverageIsSumMinusOne ==
  pc = "returned" =>
    \A s \in DOMAIN perchrom_avg_data : \A i \in 1..Len(perchrom_avg_data[s]) :
      LET c == perchrom_avg_data[s][i][1]
      IN /\ perchrom_avg_data[s][i][2] = RowSum(s, c) - 100
         /\ ~BelowCutoff(c)

C7_Witness ==
  /\ pc = "returned"
  /\ cfg.perchrom_fraction_cutoff = 500
  /\ \E r \in DOMAIN rowsRead : rowsRead[r] >= 2 /\ Reported(r[1], r[2])
  /\ \E r \in DOMAIN rowsRead : ~Reported(r[1], r[2])

\* C8: a sample with at least two cumulative entries has an absolute
\* distribution whose values sum to the cumulative percentage at its lowest
\* depth minus the one at its highest depth.
LowestDepth(d) == CHOOSE x \in dict_keys(d) : \A y \in dict_keys(d) : x <= y
HighestDepth(d) == CHOOSE x \in dict_keys(d) : \A y \in dict_keys(d) : x >= y
PercentAt(d, x) == (CHOOSE i \in 1..Len(d) : d[i][1] = x)
ValueAt(d, x) == d[PercentAt(d, x)][2]

C8_AbsoluteSum ==
  pc \in {"returned", "done"} =>
    \A s \in DOMAIN cumcov_dist_data :
      LET d == cumcov_dist_data[s]
      IN Len(d) >= 2 =>
           /\ s \in DOMAIN cov_dist_data
           /\ SumSet(DOMAIN cov_dist_data[s], cov_dist_data[s])
                = ValueAt(d, LowestDepth(d)) - ValueAt(d, HighestDepth(d))

C8_Witness ==
  /\ pc = "returned"
  /\ \E s \in DOMAIN cumcov_dist_data :
       LET d == cumcov_dist_data[s]
       IN /\ Len(d) = 3
          /\ ValueAt(d, LowestDepth(d)) # ValueAt(d, HighestDepth(d))
          /\ d[1][1] # LowestDepth(d)

\* C9: median_coverage of a sample with a cumulative series is the depth of
\* the first entry, in insertion order, whose percentage is at least 50, and
\* None when no entry reaches 50.
Reaches50(d) == {i \in 1..Len(d) : d[i][2] >= 50}

ExpectedMedian(d) ==
  IF Reaches50(d) = {} THEN PyNoneInt
  ELSE PyIntVal(d[CHOOSE i \in Reaches50(d) : \A j \in Reaches50(d) : i <= j][1])

C9_MedianFirstReaching50 ==
  pc = "done" =>
    \A s \in DOMAIN cumcov_dist_data :
      /\ s \in DOMAIN genstats
      /\ genstats[s].median_coverage = <<ExpectedMedian(cumcov_dist_data[s])>>

C9_Witness ==
  /\ pc = "done"
  /\ \E s \in DOMAIN cumcov_dist_data :
       LET d == cumcov_dist_data[s]
       IN /\ Len(d) = 3
          /\ d[1][2] < 50 /\ d[2][2] = 50 /\ d[3][2] > 50
          /\ genstats[s].median_coverage = <<PyIntVal(d[2][1])>>

\* C10: the threshold statistics of a sample with a cumulative series have
\* one entry per configured threshold and no other; the entry of t is the
\* percentage recorded at depth t, 0 when the series has no depth t.
ConfiguredThresholds ==
  IF rawcfg.attr = "dict" /\ rawcfg.general_stats_coverage # <<>>
    THEN {rawcfg.general_stats_coverage[i] \div 10 :
            i \in 1..Len(rawcfg.general_stats_coverage)}
    ELSE {1, 5, 10, 30, 50}

C10_ThresholdFractions ==
  pc = "done" =>
    \A s \in DOMAIN cumcov_dist_data :
      LET d == cumcov_dist_data[s]
      IN /\ s \in DOMAIN genstats
         /\ Len(genstats[s].thresholds) = 1
         /\ DOMAIN genstats[s].thresholds[1] = ConfiguredThresholds
         /\ \A t \in ConfiguredThresholds :
              genstats[s].thresholds[1][t] =
                IF t \in dict_keys(d) THEN ValueAt(d, t) ELSE 0

C10_Witness ==
  /\ pc = "done"
  /\ rawcfg.general_stats_coverage # <<>>
  /\ \E s \in DOMAIN cumcov_dist_data :
       LET d == cumcov_dist_data[s]
       IN /\ \E t \in ConfiguredThresholds : t \notin dict_keys(d)
          /\ \E t \in ConfiguredThresholds :
               t \in dict_keys(d) /\ genstats[s].thresholds[1][t] > 0
          /\ \E x \in dict_keys(d) : x \notin ConfiguredThresholds

\* ----------------------------------------------------------------
\* The contigs the X and the Y chromosome are looked for under
XNames == {<<"x">>, <<"X">>, <<"c", "h", "r", "x">>, <<"c", "h", "r", "X">>}
YNames == {<<"y">>, <<"Y">>, <<"c", "h", "r", "y">>, <<"c", "h", "r", "Y">>}

XMatch(c) == IF cfg.xchr.none \/ cfg.xchr.s = <<>> THEN c \in XNames
             ELSE c = cfg.xchr.s

YMatch(c) == IF cfg.ychr.none \/ cfg.ychr.s = <<>> THEN c \in YNames
             ELSE c = cfg.ychr.s

\* C11: a sample of the sex-pair output has, among the contigs reported for
\* it, one that matches X and one that matches Y, and both halves of its pair
\* are non-zero; a sample with one match only is not in the output.
C11_SexPairComplete ==
  \A s \in DOMAIN xy_cov :
    /\ \E c \in Contigs : Reported(s, c) /\ XMatch(c)
    /\ \E c \in Contigs : Reported(s, c) /\ YMatch(c)
    /\ xy_cov[s].x # 0
    /\ xy_cov[s].y # 0

C11_Witness ==
  /\ pc = "returned"
  /\ DOMAIN xy_cov # {}
  /\ \E s \in Samples \ DOMAIN xy_cov :
       /\ \E c \in Contigs : Reported(s, c) /\ XMatch(c)
       /\ ~\E c \in Contigs : Reported(s, c) /\ YMatch(c)

\* ----------------------------------------------------------------
\* Neighbours of depth x among the depths of the cumulative series d
HigherDepths(d, x) == {y \in dict_keys(d) : y > x}
LowerDepths(d, x) == {y \in dict_keys(d) : y < x}
NextHigher(d, x) ==
  CHOOSE y \in HigherDepths(d, x) : \A z \in HigherDepths(d, x) : y <= z
NextLower(d, x) ==
  CHOOSE y \in LowerDepths(d, x) : \A z \in LowerDepths(d, x) : y >= z

\* C12 as written: the absolute value stored at depth x is the cumulative
\* percentage at x minus the one at the next lower depth present.
C12_MinusNextLower ==
  pc = "returned" =>
    \A s \in DOMAIN cov_dist_data : \A x \in DOMAIN cov_dist_data[s] :
      LET d == cumcov_dist_data[s]
      IN LowerDepths(d, x) # {} =>
           cov_dist_data[s][x] = ValueAt(d, x) - ValueAt(d, NextLower(d, x))

\* C12 amended: for every depth x other than the highest one of the series,
\* the absolute value stored at x is the cumulative percentage at x minus the
\* one at the next higher depth present (not necessarily x + 1).
C12_MinusNextHigher ==
  pc = "returned" =>
    \A s \in DOMAIN cumcov_dist_data :
      LET d == cumcov_dist_data[s]
      IN \A x \in dict_keys(d) :
           HigherDepths(d, x) # {} =>
             /\ s \in DOMAIN cov_dist_data
             /\ x \in DOMAIN cov_dist_data[s]
             /\ cov_dist_data[s][x] = ValueAt(d, x) - ValueAt(d, NextHigher(d, x))

C12_Witness ==
  /\ pc = "returned"
  /\ \E s \in DOMAIN cov_dist_data :
       LET d == cumcov_dist_data[s]
       IN /\ Len(d) = 3
          /\ d[3][1] # HighestDepth(d)
          /\ \E x \in DOMAIN cov_dist_data[s] :
               /\ NextHigher(d, x) # x + 1
               /\ cov_dist_data[s][x] # 0

\* C13: every depth of a sample's cumulative series has an entry in its
\* absolute series: the highest depth its own cumulative percentage, every
\* other depth its percentage minus that of the next higher depth, so that
\* {0: 100.0, 1: 40.0} gives {0: 60.0, 1: 40.0}.
C13_HighestKeepsOwnPercent ==
  pc = "returned" =>
    \A s \in DOMAIN cumcov_dist_data :
      LET d == cumcov_dist_data[s]
      IN /\ s \in DOMAIN cov_dist_data
         /\ DOMAIN cov_dist_data[s] = dict_keys(d)
         /\ \A x \in dict_keys(d) :
              cov_dist_data[s][x] =
                IF HigherDepths(d, x) = {} THEN ValueAt(d, x)
                ELSE ValueAt(d, x) - ValueAt(d, NextHigher(d, x))

\* ----------------------------------------------------------------
\* C14: the x and y of a sample's sex pair are the average coverages the
\* per-contig table reports for a contig matching X and one matching Y.
C14_PairEqualsReportedAverages ==
  pc = "returned" =>
    \A s \in DOMAIN xy_cov :
      /\ \E c \in Contigs :
           /\ Reported(s, c) /\ XMatch(c)
           /\ xy_cov[s].x = dict_get(perchrom_avg_data[s], c, 0)
      /\ \E c \in Contigs :
           /\ Reported(s, c) /\ YMatch(c)
           /\ xy_cov[s].y = dict_get(perchrom_avg_data[s], c, 0)

\* ----------------------------------------------------------------
\* The cutoff step (lines 340-366) applied to per-contig data pd
CutoffStep(pd) ==
  filter_perchrom(pd, passing_contigs(pd, cfg.perchrom_fraction_cutoff))

RejectedBy(pd) ==
  rejected_contigs(pd, passing_contigs(pd, cfg.perchrom_fraction_cutoff))

\* C15 as written: the cutoff step applied to the per-contig output of
\* parse_cov_dist rejects no contig.
C15_IdempotentOnOutput ==
  pc = "returned" => RejectedBy(perchrom_avg_data) = {}

\* C15 amended: the cutoff step applied to the sums it has kept, before the
\* 1.0 correction, rejects no further contig.
C15_IdempotentBeforeCorrection ==
  (pc = "cutoff" /\ "perchrom_fraction_cutoff" \in DOMAIN cfg) =>
    RejectedBy(CutoffStep(perchrom_avg_data)) = {}

C15_Witness ==
  /\ pc = "cutoff"
  /\ "perchrom_fraction_cutoff" \in DOMAIN cfg
  /\ RejectedBy(perchrom_avg_data) # {}
  /\ Cardinality(DOMAIN CutoffStep(perchrom_avg_data)) = 2

====
